---------------------------- MODULE Spec2Model ----------------------------
(***************************************************************************)
(* Model of prefect/cli/dev.py: the `build_ui` command and the dev session *)
(* `start`, which runs the server unit (start_orion) and the UI unit (ui)  *)
(* in one anyio task group.                                                *)
(*                                                                         *)
(* The event loop is single threaded: a unit runs from one await to the    *)
(* next without interleaving, and `subprocess.check_output` in `ui` blocks *)
(* the whole loop.  Each action below is one such step.                    *)
(***************************************************************************)
EXTENDS Integers, Sequences, FiniteSets, TLC

\* Largest child exit code the model draws (0 is a clean exit).
MaxExitCode == 3

ExitCodes == 0..MaxExitCode

Units == {"server", "ui"}

Terminal == {"Succeeded", "Failed", "Cancelled"}

\* prefect.__root_path__ and prefect.__root_path__ / "orion-ui"
RootPath == "root"
UIPath == "root/orion-ui"

\* Directories the command can be invoked from.
Dirs == {"home", RootPath, UIPath}

\* Environment variables: the override variable and an unrelated one.
OverrideVar == "ORION_UI_SERVE_BASE"
OverrideValue == "/"
Vars == {OverrideVar, "PATH"}
Unset == "unset"
EmptyEnv == [v \in Vars |-> Unset]

\* Environments the command can be invoked with.
InvokingEnvs ==
    {e \in [Vars -> {Unset, "/", "/custom", "/usr/bin"}] :
        /\ e[OverrideVar] \in {Unset, "/", "/custom"}
        /\ e["PATH"] \in {Unset, "/usr/bin"}}

NoProcess == [launched |-> FALSE, env |-> EmptyEnv, cwd |-> "none"]

\* Errors a unit or the caller can end with; code 0 stands for "no exit code".
Err(kind, code) == [kind |-> kind, code |-> code]
NoErr == Err("none", 0)
ExternalInterrupt == Err("ExternalInterrupt", 0)
LaunchFailure == Err("LaunchFailure", 0)

NoOutcome == [status |-> "none", errors |-> <<>>]

VARIABLES
    cmd,             \* the command invoked: "start" or "build_ui"
    pc,              \* position of `start`
    bpc,             \* position of `build_ui`
    unit,            \* state of each unit of the task group
    unitErr,         \* the error a Failed unit carries
    uiPhase,         \* position of the `ui` coroutine
    srvPhase,        \* position of the server unit
    cwd,             \* the process-wide working directory
    owd,             \* directories saved by the open tmpchdir blocks
    startCwd,        \* working directory when the command was invoked
    environ,         \* os.environ of the invoking process
    startEnviron,    \* os.environ when the command was invoked
    setup,           \* result of `npm install` in ui
    watch,           \* the `npm run serve` process
    watchExit,       \* its exit code, -1 while it has not exited
    build,           \* the `npm run build` process
    staticPath,      \* prefect.__ui_static_path__
    server,          \* the server unit's child process
    srvCwd,          \* working directory at the server unit's latest step
    errors,          \* exceptions collected by the task group, by arrival
    cancelRequested, \* the task group's cancel scope is cancelled
    interrupted,     \* the caller was externally interrupted
    outcome          \* what `start` returned with

vars == <<cmd, pc, bpc, unit, unitErr, uiPhase, srvPhase, cwd, owd, startCwd,
          environ, startEnviron, setup, watch, watchExit, build, staticPath,
          server, srvCwd, errors, cancelRequested, interrupted, outcome>>

hostVars == <<cmd, pc, bpc, outcome>>
buildVars == <<build, staticPath>>
envVars == <<environ, startEnviron, startCwd>>

Init ==
    /\ cmd \in {"start", "build_ui"}
    /\ pc = IF cmd = "start" THEN "task_group" ELSE "off"
    /\ bpc = IF cmd = "build_ui" THEN "enter" ELSE "off"
    /\ unit = [u \in Units |-> "Idle"]
    /\ unitErr = [u \in Units |-> NoErr]
    /\ uiPhase = "none"
    /\ srvPhase = "none"
    /\ cwd \in Dirs
    /\ owd = <<>>
    /\ startCwd = cwd
    /\ environ \in InvokingEnvs
    /\ startEnviron = environ
    /\ setup = "none"
    /\ watch = NoProcess
    /\ watchExit = -1
    /\ build = NoProcess
    /\ staticPath \in {"absent", "old"}
    /\ server = NoProcess
    /\ srvCwd = "none"
    /\ errors = <<>>
    /\ cancelRequested = FALSE
    /\ interrupted = FALSE
    /\ outcome = NoOutcome

----------------------------------------------------------------------------
(* prefect.utilities.filesystem.tmpchdir: chdir to `path`, remembering the  *)
(* directory to go back to when the block is left.                          *)

Here == [cwd |-> cwd, owd |-> owd]

TmpChdir(s, path) == [cwd |-> path, owd |-> Append(s.owd, s.cwd)]

TmpChdirExit(s) ==
    [cwd |-> s.owd[Len(s.owd)], owd |-> SubSeq(s.owd, 1, Len(s.owd) - 1)]

\* with tmpchdir(root): with tmpchdir(root / "orion-ui"):
EnterUIDir ==
    LET s == TmpChdir(TmpChdir(Here, RootPath), UIPath)
    IN  cwd' = s.cwd /\ owd' = s.owd

\* leaving the inner block only
LeaveInner ==
    LET s == TmpChdirExit(Here)
    IN  cwd' = s.cwd /\ owd' = s.owd

\* leaving both blocks, normally or by an exception
LeaveBoth ==
    LET s == TmpChdirExit(TmpChdirExit(Here))
    IN  cwd' = s.cwd /\ owd' = s.owd

----------------------------------------------------------------------------
(* Environments of the spawned processes.  `parent` is os.environ after the *)
(* call, `child` the environment the process is spawned with.               *)

BuildEnvInPlace(e) ==
    LET m == [e EXCEPT ![OverrideVar] = OverrideValue]
    IN  [parent |-> m, child |-> m]

\* env = os.environ.copy(); env["ORION_UI_SERVE_BASE"] = "/"
BuildEnv(e) ==
    [parent |-> e, child |-> [e EXCEPT ![OverrideVar] = OverrideValue]]

\* open_process_and_stream_output(command=[...]): no env given, so the
\* process inherits os.environ as it is.
WatchEnv(e) == [parent |-> e, child |-> e]

----------------------------------------------------------------------------
(* build_ui                                                                 *)

unitVars == <<unit, unitErr, uiPhase, srvPhase, setup, watch, watchExit,
              server, srvCwd, errors, cancelRequested, interrupted>>

BuildEnter ==
    /\ bpc = "enter"
    /\ EnterUIDir
    /\ bpc' = "install"
    /\ UNCHANGED <<cmd, pc, outcome, buildVars, envVars, unitVars>>

\* subprocess.check_output(["npm", "ci", "install"])
BuildInstall ==
    /\ bpc = "install"
    /\ \E code \in ExitCodes :
          IF code = 0
          THEN bpc' = "build" /\ UNCHANGED <<cwd, owd>>
          ELSE bpc' = "failed" /\ LeaveBoth
    /\ UNCHANGED <<cmd, pc, outcome, buildVars, envVars, unitVars>>

\* subprocess.check_output(["npm", "run", "build"], env=env): the spawn
BuildLaunch ==
    /\ bpc = "build"
    /\ LET e == BuildEnv(environ)
       IN  /\ environ' = e.parent
           /\ build' = [launched |-> TRUE, env |-> e.child, cwd |-> cwd]
    /\ bpc' = "building"
    /\ UNCHANGED <<cmd, pc, outcome, staticPath, startEnviron, startCwd,
                   cwd, owd, unitVars>>

\* ... and its end: a non-zero exit raises CalledProcessError
BuildEnd ==
    /\ bpc = "building"
    /\ \E code \in ExitCodes :
          IF code = 0
          THEN bpc' = "copy" /\ LeaveInner
          ELSE bpc' = "failed" /\ LeaveBoth
    /\ UNCHANGED <<cmd, pc, outcome, buildVars, envVars, unitVars>>

\* rmtree of an existing build, copytree, leaving the outer block
BuildCopy ==
    /\ bpc = "copy"
    /\ staticPath' = "new"
    /\ LeaveInner
    /\ bpc' = "done"
    /\ UNCHANGED <<cmd, pc, outcome, build, envVars, unitVars>>

----------------------------------------------------------------------------
(* The task group of `start`: how a child's end is taken in, when the      *)
(* `async with` block is left, and what it is left with.                    *)

ChildRaisedAbsorbed(u, err) ==
    /\ unit' = [unit EXCEPT ![u] = "Failed"]
    /\ unitErr' = [unitErr EXCEPT ![u] = err]
    /\ errors' = Append(errors, err)
    /\ cancelRequested' = cancelRequested

\* A child raised: the exception is collected and the scope is cancelled.
ChildRaised(u, err) ==
    /\ unit' = [unit EXCEPT ![u] = "Failed"]
    /\ unitErr' = [unitErr EXCEPT ![u] = err]
    /\ errors' = Append(errors, err)
    /\ cancelRequested' = TRUE

ChildReturnedCancelsSiblings(u) ==
    /\ unit' = [unit EXCEPT ![u] = "Succeeded"]
    /\ cancelRequested' = TRUE
    /\ UNCHANGED <<unitErr, errors>>

\* A child returned normally: its siblings are left running.
ChildReturned(u) ==
    /\ unit' = [unit EXCEPT ![u] = "Succeeded"]
    /\ UNCHANGED <<unitErr, errors, cancelRequested>>

\* A child ended by the cancellation it was sent: nothing is collected.
ChildCancelled(u) ==
    /\ unit' = [unit EXCEPT ![u] = "Cancelled"]
    /\ UNCHANGED <<unitErr, errors, cancelRequested>>

CanExitOnFirstError == errors # <<>> \/ \A u \in Units : unit[u] \in Terminal

\* The block is left only when every child task has finished.
CanExit == \A u \in Units : unit[u] \in Terminal

GroupOutcomeFirstOnly(errs) ==
    IF errs = <<>>
    THEN [status |-> "Succeeded", errors |-> <<>>]
    ELSE [status |-> "Failed", errors |-> <<errs[1]>>]

GroupOutcomeUnitErrorsOnly(errs) ==
    LET unitErrs == SelectSeq(errs, LAMBDA e : e # ExternalInterrupt)
    IN  IF unitErrs = <<>>
        THEN [status |-> "Succeeded", errors |-> <<>>]
        ELSE [status |-> "Failed", errors |-> unitErrs]

\* No exception collected: the block ends normally.  Otherwise it raises
\* what was collected (one exception, or the group of all of them).
GroupOutcome(errs) ==
    IF errs = <<>>
    THEN [status |-> "Succeeded", errors |-> <<>>]
    ELSE [status |-> "Failed", errors |-> errs]

\* The event loop runs the tasks only while `start` is suspended in the
\* exit of the block, and runs nothing while check_output blocks in `ui`.
LoopRuns == pc = "waiting" /\ uiPhase # "setup"

sessionFrame == <<cmd, bpc, buildVars, startEnviron, startCwd>>

\* tg.start_soon(partial(start_orion, ui=False, agent=agent))
SpawnServer ==
    /\ pc = "task_group"
    /\ unit' = [unit EXCEPT !["server"] = "Pending"]
    /\ pc' = "spawned_server"
    /\ UNCHANGED <<sessionFrame, outcome, unitErr, uiPhase, srvPhase, cwd, owd,
                   environ, setup, watch, watchExit, server, srvCwd, errors,
                   cancelRequested, interrupted>>

\* tg.start_soon(ui), then the exit of the block starts waiting
SpawnUI ==
    /\ pc = "spawned_server"
    /\ unit' = [unit EXCEPT !["ui"] = "Pending"]
    /\ pc' = "waiting"
    /\ UNCHANGED <<sessionFrame, outcome, unitErr, uiPhase, srvPhase, cwd, owd,
                   environ, setup, watch, watchExit, server, srvCwd, errors,
                   cancelRequested, interrupted>>

\* the exit of the `async with` block
HostExit ==
    /\ pc = "waiting"
    /\ CanExit
    /\ pc' = "returned"
    /\ outcome' = GroupOutcome(errors)
    /\ UNCHANGED <<sessionFrame, unitVars, cwd, owd, environ>>

----------------------------------------------------------------------------
(* The server unit, start_orion: a process run to completion.               *)

\* Outcome of a unit that runs a process to completion, by its exit code.
ServerResult(code) == IF code = 0 THEN "Succeeded" ELSE "Failed"

\* The first step of the task runs up to its first await.
ServerStart ==
    /\ LoopRuns
    /\ unit["server"] = "Pending"
    /\ unit' = [unit EXCEPT !["server"] = "Running"]
    /\ srvPhase' = "launching"
    /\ srvCwd' = cwd
    /\ UNCHANGED <<sessionFrame, pc, outcome, unitErr, uiPhase, cwd, owd,
                   environ, setup, watch, watchExit, server, errors,
                   cancelRequested, interrupted>>

\* The later steps come after the first step of `ui`, started right behind.
ServerStep ==
    /\ LoopRuns
    /\ unit["server"] = "Running"
    /\ unit["ui"] # "Pending"

ServerLaunch ==
    /\ ServerStep
    /\ srvPhase = "launching"
    /\ ~cancelRequested
    /\ server' = [launched |-> TRUE, env |-> environ, cwd |-> cwd]
    /\ srvPhase' = "serving"
    /\ srvCwd' = cwd
    /\ UNCHANGED <<sessionFrame, pc, outcome, unit, unitErr, uiPhase, cwd, owd,
                   environ, setup, watch, watchExit, errors, cancelRequested,
                   interrupted>>

ServerLaunchFails ==
    /\ ServerStep
    /\ srvPhase = "launching"
    /\ ~cancelRequested
    /\ ChildRaised("server", LaunchFailure)
    /\ srvPhase' = "done"
    /\ srvCwd' = cwd
    /\ UNCHANGED <<sessionFrame, pc, outcome, uiPhase, cwd, owd, environ,
                   setup, watch, watchExit, server, interrupted>>

ServerExit ==
    /\ ServerStep
    /\ srvPhase = "serving"
    /\ ~cancelRequested
    /\ \E code \in ExitCodes :
          IF ServerResult(code) = "Succeeded"
          THEN ChildReturned("server")
          ELSE ChildRaised("server", Err("ChildExitFailure", code))
    /\ srvPhase' = "done"
    /\ srvCwd' = cwd
    /\ UNCHANGED <<sessionFrame, pc, outcome, uiPhase, cwd, owd, environ,
                   setup, watch, watchExit, server, interrupted>>

ServerCancelled ==
    /\ ServerStep
    /\ cancelRequested
    /\ ChildCancelled("server")
    /\ srvPhase' = "done"
    /\ srvCwd' = cwd
    /\ UNCHANGED <<sessionFrame, pc, outcome, uiPhase, cwd, owd, environ,
                   setup, watch, watchExit, server, interrupted>>

----------------------------------------------------------------------------
(* The UI unit, ui.                                                         *)

SetupNeverRaises(code) == FALSE

\* subprocess.check_output raises CalledProcessError on a non-zero exit.
SetupRaises(code) == code # 0

\* The value awaited from open_process_and_stream_output is dropped and
\* `ui` falls off its end: the unit returns normally whatever the exit code.
UIResult(code) == "Succeeded"

\* First step, part one: both tmpchdir blocks are entered and `npm install`
\* is started; check_output blocks the event loop until it ends.
UIStart ==
    /\ LoopRuns
    /\ unit["ui"] = "Pending"
    /\ unit["server"] # "Pending"
    /\ unit' = [unit EXCEPT !["ui"] = "Running"]
    /\ EnterUIDir
    /\ uiPhase' = "setup"
    /\ UNCHANGED <<sessionFrame, pc, outcome, unitErr, srvPhase, environ,
                   setup, watch, watchExit, server, srvCwd, errors,
                   cancelRequested, interrupted>>

\* First step, part two: `npm install` ends.  On success `ui` goes on to
\* the await of the watch process and is suspended there before the spawn.
UISetupEnd ==
    /\ pc = "waiting"
    /\ uiPhase = "setup"
    /\ \E code \in ExitCodes :
          /\ setup' = IF code = 0 THEN "ok" ELSE "error"
          /\ IF SetupRaises(code)
             THEN /\ ChildRaised("ui", Err("SetupError", code))
                  /\ LeaveBoth
                  /\ uiPhase' = "done"
             ELSE /\ uiPhase' = "launching"
                  /\ UNCHANGED <<unit, unitErr, errors, cancelRequested,
                                 cwd, owd>>
    /\ UNCHANGED <<sessionFrame, pc, outcome, srvPhase, environ, watch,
                   watchExit, server, srvCwd, interrupted>>

\* A step of `ui` at its await: a pending cancellation is raised there
\* instead of the step being taken.
UIStep ==
    /\ LoopRuns
    /\ unit["ui"] = "Running"

\* await open_process_and_stream_output(command=["npm", "run", "serve"])
UILaunch ==
    /\ UIStep
    /\ uiPhase = "launching"
    /\ ~cancelRequested
    /\ LET e == WatchEnv(environ)
       IN  /\ environ' = e.parent
           /\ watch' = [launched |-> TRUE, env |-> e.child, cwd |-> cwd]
    /\ uiPhase' = "watching"
    /\ UNCHANGED <<sessionFrame, pc, outcome, unit, unitErr, srvPhase, cwd,
                   owd, setup, watchExit, server, srvCwd, errors,
                   cancelRequested, interrupted>>

UILaunchFails ==
    /\ UIStep
    /\ uiPhase = "launching"
    /\ ~cancelRequested
    /\ ChildRaised("ui", LaunchFailure)
    /\ LeaveBoth
    /\ uiPhase' = "done"
    /\ UNCHANGED <<sessionFrame, pc, outcome, srvPhase, environ, setup, watch,
                   watchExit, server, srvCwd, interrupted>>

\* The watch process exits and the await returns.
UIWatchExit ==
    /\ UIStep
    /\ uiPhase = "watching"
    /\ ~cancelRequested
    /\ \E code \in ExitCodes :
          /\ watchExit' = code
          /\ IF UIResult(code) = "Succeeded"
             THEN ChildReturned("ui")
             ELSE ChildRaised("ui", Err("ChildExitFailure", code))
    /\ LeaveBoth
    /\ uiPhase' = "done"
    /\ UNCHANGED <<sessionFrame, pc, outcome, srvPhase, environ, setup, watch,
                   server, srvCwd, interrupted>>

\* The cancellation is raised at the await; both tmpchdir blocks are left.
UICancelled ==
    /\ UIStep
    /\ uiPhase \in {"launching", "watching"}
    /\ cancelRequested
    /\ ChildCancelled("ui")
    /\ LeaveBoth
    /\ uiPhase' = "done"
    /\ UNCHANGED <<sessionFrame, pc, outcome, srvPhase, environ, setup, watch,
                   watchExit, server, srvCwd, interrupted>>

----------------------------------------------------------------------------
(* External interruption of the caller while the group is waiting.          *)

Interruptible ==
    /\ pc = "waiting"
    /\ ~interrupted
    /\ \A u \in Units : unit[u] # "Pending"
    /\ \E u \in Units : unit[u] = "Running"

\* While the loop is idle: taken as a failure with the distinguished error.
Interrupt ==
    /\ Interruptible
    /\ uiPhase # "setup"
    /\ interrupted' = TRUE
    /\ errors' = Append(errors, ExternalInterrupt)
    /\ cancelRequested' = TRUE
    /\ UNCHANGED <<sessionFrame, pc, outcome, unit, unitErr, uiPhase, srvPhase,
                   cwd, owd, environ, setup, watch, watchExit, server, srvCwd>>

\* While check_output blocks in `ui`: the interrupt is raised there, in the
\* UI unit, which ends with it.
InterruptInSetup ==
    /\ Interruptible
    /\ uiPhase = "setup"
    /\ interrupted' = TRUE
    /\ setup' = "interrupted"
    /\ ChildRaised("ui", ExternalInterrupt)
    /\ LeaveBoth
    /\ uiPhase' = "done"
    /\ UNCHANGED <<sessionFrame, pc, outcome, srvPhase, environ, watch,
                   watchExit, server, srvCwd>>

----------------------------------------------------------------------------

Next ==
    \/ BuildEnter
    \/ BuildInstall
    \/ BuildLaunch
    \/ BuildEnd
    \/ BuildCopy
    \/ SpawnServer
    \/ SpawnUI
    \/ HostExit
    \/ ServerStart
    \/ ServerLaunch
    \/ ServerLaunchFails
    \/ ServerExit
    \/ ServerCancelled
    \/ UIStart
    \/ UISetupEnd
    \/ UILaunch
    \/ UILaunchFails
    \/ UIWatchExit
    \/ UICancelled
    \/ Interrupt
    \/ InterruptInSetup

Spec == Init /\ [][Next]_vars

\* The event loop keeps running what is ready: the spawns, the first steps,
\* the launches, the delivery of a cancellation, and the exit of the block.
\* Nothing makes a child process exit, or `npm install` end, or an
\* interrupt arrive.
FairSpec ==
    /\ Spec
    /\ WF_vars(SpawnServer)
    /\ WF_vars(SpawnUI)
    /\ WF_vars(ServerStart)
    /\ WF_vars(UIStart)
    /\ WF_vars(ServerLaunch \/ ServerLaunchFails)
    /\ WF_vars(UILaunch \/ UILaunchFails)
    /\ WF_vars(ServerCancelled)
    /\ WF_vars(UICancelled)
    /\ WF_vars(HostExit)

TypeOK ==
    /\ cmd \in {"start", "build_ui"}
    /\ pc \in {"off", "task_group", "spawned_server", "waiting", "returned"}
    /\ bpc \in {"off", "enter", "install", "build", "building", "copy",
                "done", "failed"}
    /\ unit \in [Units -> {"Idle", "Pending", "Running"} \cup Terminal]
    /\ uiPhase \in {"none", "setup", "launching", "watching", "done"}
    /\ srvPhase \in {"none", "launching", "serving", "done"}
    /\ cwd \in Dirs
    /\ setup \in {"none", "ok", "error", "interrupted"}
    /\ watchExit \in {-1} \cup ExitCodes
    /\ cancelRequested \in BOOLEAN
    /\ interrupted \in BOOLEAN
    /\ Len(errors) <= 3

----------------------------------------------------------------------------
(* Properties                                                               *)

AllTerminal == \A u \in Units : unit[u] \in Terminal

Returned == pc = "returned"

Surfaced(err) == \E i \in 1..Len(outcome.errors) : outcome.errors[i] = err

\* C1: when `start` returns, every unit of its task group is Succeeded,
\* Failed or Cancelled; none is Pending or Running.
C1_NoLiveUnitAtReturn ==
    Returned => \A u \in Units : unit[u] \in Terminal

C1_Witness ==
    /\ Returned
    /\ unit["ui"] = "Failed"
    /\ unit["server"] = "Cancelled"

\* C2: at return the group outcome is Succeeded exactly when every unit
\* ended Succeeded, and is a failure otherwise.
C2_SucceededIffAllSucceeded ==
    Returned =>
        /\ outcome.status \in {"Succeeded", "Failed"}
        /\ outcome.status = "Succeeded" <=>
               \A u \in Units : unit[u] = "Succeeded"

C2_Witness ==
    /\ Returned
    /\ \A u \in Units : unit[u] = "Succeeded"
    /\ outcome.status = "Succeeded"

\* C3: whenever a unit is Failed while a sibling is still Running, the
\* failure has been collected and the cancellation has been issued, and
\* from a unit's failure on every unit eventually is in a terminal state.
C3_FailureEscalates ==
    /\ [](\A u \in Units :
             (unit[u] = "Failed" /\ \E v \in Units : unit[v] = "Running")
                 => (cancelRequested /\ errors # <<>>))
    /\ ((\E u \in Units : unit[u] = "Failed") ~> AllTerminal)

C3_Witness ==
    /\ unit["server"] = "Failed"
    /\ unit["ui"] = "Running"
    /\ uiPhase = "watching"
    /\ cancelRequested

\* A unit has ended by a clean exit of its process, without error.
CleanExit ==
    \/ unit["ui"] = "Succeeded" /\ watchExit = 0
    \/ unit["server"] = "Succeeded"

\* C4 as stated, in the case it names: once either unit has exited, be it
\* by a clean exit without error, the session eventually terminates, the
\* other unit ended and `start` returned.
C4_AnyExitEndsSession ==
    CleanExit ~> (Returned /\ AllTerminal)

CleanEndOnly ==
    /\ \E u \in Units : unit[u] = "Succeeded"
    /\ \E u \in Units : unit[u] = "Running"
    /\ errors = <<>>

\* C4 as amended: once either unit has ended Failed the session eventually
\* terminates with both units ended; while a unit has ended without an
\* error, the other is running and nothing has failed, no cancellation is
\* issued and `start` has not returned.
C4_FailureEndsSession ==
    /\ ((\E u \in Units : unit[u] = "Failed") ~> (Returned /\ AllTerminal))
    /\ [](CleanEndOnly => (~cancelRequested /\ ~Returned))

C4_Witness ==
    /\ unit["ui"] = "Succeeded"
    /\ watchExit = 0
    /\ srvPhase = "serving"
    /\ unit["server"] = "Running"
    /\ ~cancelRequested

\* C5: a watch process that exited with a non-zero code makes the UI unit
\* Failed carrying that code, and the group outcome a failure carrying it.
C5_NonZeroExitFailsUnit ==
    watchExit > 0 =>
        /\ unit["ui"] = "Failed"
        /\ unitErr["ui"] = Err("ChildExitFailure", watchExit)
        /\ Returned =>
              /\ outcome.status = "Failed"
              /\ Surfaced(Err("ChildExitFailure", watchExit))

\* C7: the watch process is launched only after `npm install` succeeded;
\* if `npm install` errors the UI unit is Failed with the setup error, the
\* watch process is never launched, the cancellation is issued, and the
\* session returns a failure with the server unit Cancelled.
C7_SetupBeforeWatch ==
    /\ (watch.launched \/ uiPhase \in {"launching", "watching"})
           => setup = "ok"
    /\ setup = "error" =>
          /\ unit["ui"] = "Failed"
          /\ unitErr["ui"].kind = "SetupError"
          /\ ~watch.launched
          /\ cancelRequested
          /\ Returned =>
                /\ outcome.status = "Failed"
                /\ Surfaced(unitErr["ui"])
                /\ unit["server"] = "Cancelled"

C7_Witness ==
    /\ Returned
    /\ setup = "error"
    /\ unit["server"] = "Cancelled"

C9_ServerSeesStartCwd ==
    /\ srvCwd \in {"none", startCwd}
    /\ server.launched => server.cwd = startCwd

\* The override variable carries the override value and every other
\* variable the value it had in the invoking environment.
HasOverride(env) ==
    /\ env[OverrideVar] = OverrideValue
    /\ \A v \in Vars \ {OverrideVar} : env[v] = startEnviron[v]

\* C10 as stated: the build process and the watch process are both spawned
\* with the override variable set and the other variables passed through,
\* and the invoking environment is left unchanged.
C10_BuildAndWatchGetOverride ==
    /\ build.launched => HasOverride(build.env)
    /\ watch.launched => HasOverride(watch.env)
    /\ environ = startEnviron

\* C10 as amended: the build process is spawned with the override variable
\* set and the other variables passed through; the watch process is spawned
\* with the invoking environment as it is; the invoking environment is
\* left unchanged.
C10_BuildGetsOverrideWatchInherits ==
    /\ build.launched => HasOverride(build.env)
    /\ watch.launched => watch.env = startEnviron
    /\ environ = startEnviron

C10_Witness ==
    /\ build.launched
    /\ startEnviron[OverrideVar] = "/custom"
    /\ build.env[OverrideVar] = OverrideValue
    /\ bpc = "done"

\* Two units never both end Failed: a unit's failure cancels the scope, and
\* the sibling then ends by the cancellation at its await.
BothFailed == \A u \in Units : unit[u] = "Failed"

NeverBothFailed == ~BothFailed

=============================================================================
